---- MODULE Spec2Model ----
(***************************************************************************)
(* Model of hilbert.py: conversion between the distance along a Hilbert    *)
(* curve (iH) and nD-dimensional coordinates (x), after Skilling's         *)
(* TransposetoAxes / AxestoTranspose.                                      *)
(*                                                                         *)
(* Python lists are functions over 0..nD-1 (the source's own indices), bit *)
(* strings are sequences of the characters "0" and "1".  A caller makes    *)
(* one conversion call and then feeds its result to the opposite           *)
(* conversion.  The while loops of the two conversions are taken one       *)
(* iteration per step.                                                     *)
(***************************************************************************)
EXTENDS Integers, Sequences, FiniteSets

VARIABLES pH, nD, fn, pc, calls, iH, x, x_before, ih, Q, t, undoQs, grayQs

vars == <<pH, nD, fn, pc, calls, iH, x, x_before, ih, Q, t, undoQs, grayQs>>

(* Bounds of the model: dimensions, iterations, and bits of the distance.  *)
MaxDims == 3
MaxDepth == 3
MaxBits == 9

----------------------------------------------------------------------------
(* Python integer operators, on unbounded integers (two's complement for   *)
(* a negative left operand of &).  Loops are recursive functions of the    *)
(* loop index and, where the body reads it more than once, of the value    *)
(* carried from one iteration to the next.                                 *)

ShiftLeft(a, n) == a * (2 ^ n)

ShiftRight(a, n) == a \div (2 ^ n)

BitAnd(a, b) ==
    LET and[u \in Int, v \in Nat] ==
            IF v = 0 THEN 0
            ELSE (u % 2) * (v % 2) + 2 * and[u \div 2, v \div 2]
    IN  and[a, b]

BitXor(a, b) ==
    LET xor[u \in Nat, v \in Nat] ==
            IF u = 0 THEN v
            ELSE IF v = 0 THEN u
            ELSE (((u % 2) + (v % 2)) % 2) + 2 * xor[u \div 2, v \div 2]
    IN  xor[a, b]

BitChars == {"0", "1"}

(* s[::-1] *)
Reversed(s) ==
    LET rev[u \in Seq(BitChars)] ==
            IF Len(u) = 0 THEN <<>>
            ELSE Append(rev[Tail(u)], Head(u))
    IN  rev[s]

(* int('0b' + s, 2) *)
IntBase2(s) ==
    LET int[u \in Seq(BitChars)] ==
            IF Len(u) = 0 THEN 0
            ELSE 2 * int[SubSeq(u, 1, Len(u) - 1)]
                 + (IF u[Len(u)] = "1" THEN 1 ELSE 0)
    IN  int[s]

(* [''] * nD *)
EmptyStrings(nD_) == [inD \in 0..(nD_ - 1) |-> <<>>]

(* lists of nD non-negative integers *)
IntList(nD_) == [0..(nD_ - 1) -> Nat]

----------------------------------------------------------------------------
(* _bit_at, _pack_iH_into_x, _extract_iH_from_x                            *)

_bit_at(integer, offset) ==
    LET mask == ShiftLeft(1, offset)
        bitwise_and == BitAnd(integer, ShiftLeft(1, offset))
    IN  IF bitwise_and > 0 THEN "1" ELSE "0"

(* s = ''; for i in range(n): s += _bit_at(integer, i) *)
BitString(integer, n) ==
    LET str[i \in 0..n] ==
            IF i = 0 THEN <<>>
            ELSE Append(str[i - 1], _bit_at(integer, i - 1))
    IN  str[n]

(* k = 0; for ipH in range(pH): for inD in range(nD):                      *)
(*     x[inD] += iH_bit_str[k]; k += 1                                     *)
PackLoop(xs, iH_bit_str, nD_) ==
    LET for[k \in 0..Len(iH_bit_str)] ==
            IF k = 0 THEN xs
            ELSE [for[k - 1] EXCEPT
                     ![(k - 1) % nD_] = Append(@, iH_bit_str[k])]
    IN  for[Len(iH_bit_str)]

(* for inD in range(nD): x[inD] = int('0b' + x[inD], 2) *)
ParseLoop(xs, nD_) ==
    LET for[inD \in 0..nD_] ==
            IF inD = 0 THEN xs
            ELSE [for[inD - 1] EXCEPT ![inD - 1] = IntBase2(@)]
    IN  for[nD_]

(* _pack_iH_into_x without iH_bit_str[::-1] *)
_pack_iH_into_x_NoReverse(iH_, pH_, nD_) ==
    LET iH_bit_str == BitString(iH_, pH_ * nD_)
    IN  ParseLoop(PackLoop(EmptyStrings(nD_), iH_bit_str, nD_), nD_)

_pack_iH_into_x(iH_, pH_, nD_) ==
    LET iH_bit_str == Reversed(BitString(iH_, pH_ * nD_))
    IN  ParseLoop(PackLoop(EmptyStrings(nD_), iH_bit_str, nD_), nD_)

(* for inD in range(nD): x_bit_str[inD] = bits of x[inD], reversed *)
BitStringsLoop(x_bit_str, x_, pH_, nD_) ==
    LET for[inD \in 0..nD_] ==
            IF inD = 0 THEN x_bit_str
            ELSE [for[inD - 1] EXCEPT
                     ![inD - 1] = Reversed(BitString(x_[inD - 1], pH_))]
    IN  for[nD_]

(* for ipH in range(pH): for inD in range(nD):                             *)
(*     iH_str += x_bit_str[inD][ipH]                                       *)
ExtractLoop(iH_str, x_bit_str, pH_, nD_) ==
    LET for[k \in 0..(pH_ * nD_)] ==
            IF k = 0 THEN iH_str
            ELSE Append(for[k - 1],
                        x_bit_str[(k - 1) % nD_][((k - 1) \div nD_) + 1])
    IN  for[pH_ * nD_]

_extract_iH_from_x(x_, pH_, nD_) ==
    LET x_bit_str == BitStringsLoop(EmptyStrings(nD_), x_, pH_, nD_)
    IN  IntBase2(ExtractLoop(<<>>, x_bit_str, pH_, nD_))

----------------------------------------------------------------------------
(* transpose2axes                                                          *)

(* DecodeLoop running upwards, for i in range(1, nD) *)
DecodeLoop_Ascending(x_, nD_) ==
    LET for[i \in 1..nD_, y \in IntList(nD_)] ==
            IF i >= nD_ THEN y
            ELSE for[i + 1, [y EXCEPT ![i] = BitXor(y[i], y[i - 1])]]
    IN  for[1, x_]

(* for i in range(nD-1, 0, -1): x[i] ^= x[i-1] *)
DecodeLoop(x_, nD_) ==
    LET for[i \in 0..(nD_ - 1), y \in IntList(nD_)] ==
            IF i <= 0 THEN y
            ELSE for[i - 1, [y EXCEPT ![i] = BitXor(y[i], y[i - 1])]]
    IN  for[nD_ - 1, x_]

(* GrayDecode without the final x[0] ^= t *)
GrayDecode_NoCarry(x_, nD_) == DecodeLoop(x_, nD_)

(* Gray decode by H ^ (H/2) *)
GrayDecode(x_, nD_) ==
    LET t_ == ShiftRight(x_[nD_ - 1], 1)
    IN  [DecodeLoop(x_, nD_) EXCEPT ![0] = BitXor(@, t_)]

(* UndoStep whose exchange leaves out x[i] ^= t *)
UndoStep_HalfExchange(x_, i, Q_) ==
    LET P == Q_ - 1 IN
    IF BitAnd(x_[i], Q_) # 0
    THEN [x_ EXCEPT ![0] = BitXor(@, P)]
    ELSE LET t_ == BitAnd(BitXor(x_[0], x_[i]), P)
         IN  [x_ EXCEPT ![0] = BitXor(@, t_)]

(* body of the inner for loop: invert or exchange *)
UndoStep(x_, i, Q_) ==
    LET P == Q_ - 1 IN
    IF BitAnd(x_[i], Q_) # 0
    THEN [x_ EXCEPT ![0] = BitXor(@, P)]
    ELSE LET t_ == BitAnd(BitXor(x_[0], x_[i]), P)
         IN  [x_ EXCEPT ![0] = BitXor(@, t_), ![i] = BitXor(@, t_)]

(* UndoPass running upwards, for i in range(nD) *)
UndoPass_Ascending(x_, Q_, nD_) ==
    LET for[i \in 0..nD_, y \in IntList(nD_)] ==
            IF i >= nD_ THEN y
            ELSE for[i + 1, UndoStep(y, i, Q_)]
    IN  for[0, x_]

(* for i in range(nD-1, -1, -1) *)
UndoPass(x_, Q_, nD_) ==
    LET for[i \in (-1)..(nD_ - 1), y \in IntList(nD_)] ==
            IF i < 0 THEN y
            ELSE for[i - 1, UndoStep(y, i, Q_)]
    IN  for[nD_ - 1, x_]

(* N = 2 << (pH-1) *)
N(pH_) == ShiftLeft(2, pH_ - 1)

(* Q = 2; while Q != N: ...; Q <<= 1 *)
UndoExcessWork(x_, N_, nD_) ==
    LET while[Q_ \in Nat, y \in IntList(nD_)] ==
            IF Q_ = N_ THEN y
            ELSE while[ShiftLeft(Q_, 1), UndoPass(y, Q_, nD_)]
    IN  while[2, x_]

transpose2axes(iH_, pH_, nD_) ==
    LET x0 == _pack_iH_into_x(iH_, pH_, nD_)
    IN  UndoExcessWork(GrayDecode(x0, nD_), N(pH_), nD_)

----------------------------------------------------------------------------
(* axes2transpose                                                          *)

(* M one bit too high, 1 << pH *)
M_OffByOne(pH_) == ShiftLeft(1, pH_)

(* M = 1 << (pH - 1) *)
M(pH_) == ShiftLeft(1, pH_ - 1)

InverseUndoStep(x_, i, Q_) ==
    LET P == Q_ - 1 IN
    IF BitAnd(x_[i], Q_) # 0
    THEN [x_ EXCEPT ![0] = BitXor(@, P)]
    ELSE LET t_ == BitAnd(BitXor(x_[0], x_[i]), P)
         IN  [x_ EXCEPT ![0] = BitXor(@, t_), ![i] = BitXor(@, t_)]

(* for i in range(nD) *)
InverseUndoPass(x_, Q_, nD_) ==
    LET for[i \in 0..nD_, y \in IntList(nD_)] ==
            IF i >= nD_ THEN y
            ELSE for[i + 1, InverseUndoStep(y, i, Q_)]
    IN  for[0, x_]

(* for i in range(1,nD): x[i] ^= x[i-1] *)
EncodeLoop(x_, nD_) ==
    LET for[i \in 1..nD_, y \in IntList(nD_)] ==
            IF i >= nD_ THEN y
            ELSE for[i + 1, [y EXCEPT ![i] = BitXor(y[i], y[i - 1])]]
    IN  for[1, x_]

(* XorAll that skips axis 0, for i in range(1, nD) *)
XorAll_SkipFirst(x_, t_, nD_) ==
    [i \in 0..(nD_ - 1) |-> IF i = 0 THEN x_[i] ELSE BitXor(x_[i], t_)]

(* for i in range(nD): x[i] ^= t *)
XorAll(x_, t_, nD_) == [i \in 0..(nD_ - 1) |-> BitXor(x_[i], t_)]

----------------------------------------------------------------------------
(* The state machine.                                                      *)
(*   pH, nD    parameters of the conversions                               *)
(*   fn, pc    the function being executed and the position in it          *)
(*   calls     number of conversion calls that have returned               *)
(*   iH        the distance passed to transpose2axes                       *)
(*   x         the list object: created by transpose2axes, or the caller's *)
(*             list that axes2transpose works on                           *)
(*   x_before  the values the caller's list held when axes2transpose was   *)
(*             called                                                      *)
(*   ih        the value returned by axes2transpose                        *)
(*   Q, t      locals of the running function                              *)
(*   undoQs    values of Q for which the (inverse) undo loop body ran      *)
(*   grayQs    values of Q for which the Gray encode loop body ran         *)

Zeros(nD_) == [i \in 0..(nD_ - 1) |-> 0]

Init ==
    /\ pH \in 1..MaxDepth
    /\ nD \in 1..MaxDims
    /\ pH * nD <= MaxBits
    /\ fn \in {"transpose2axes", "axes2transpose"}
    /\ pc = "call"
    /\ calls = 0
    /\ iH \in (IF fn = "transpose2axes" THEN (-1)..(2 ^ (pH * nD)) ELSE {0})
    /\ x \in (IF fn = "axes2transpose"
              THEN [0..(nD - 1) -> 0..(2 ^ pH)]
              ELSE {Zeros(nD)})
    /\ x_before = x
    /\ ih = 0
    /\ Q = 0
    /\ t = 0
    /\ undoQs = <<>>
    /\ grayQs = <<>>

(* transpose2axes: x = _pack_iH_into_x(iH, pH, nD) *)
T2A_Pack ==
    /\ fn = "transpose2axes"
    /\ pc = "call"
    /\ x' = _pack_iH_into_x(iH, pH, nD)
    /\ pc' = "decode"
    /\ undoQs' = <<>>
    /\ grayQs' = <<>>
    /\ UNCHANGED <<pH, nD, fn, calls, iH, x_before, ih, Q, t>>

(* transpose2axes: Gray decode, then Q = 2 *)
T2A_GrayDecode ==
    /\ fn = "transpose2axes"
    /\ pc = "decode"
    /\ x' = GrayDecode(x, nD)
    /\ Q' = 2
    /\ pc' = "undo"
    /\ UNCHANGED <<pH, nD, fn, calls, iH, x_before, ih, t, undoQs, grayQs>>

(* transpose2axes: one iteration of 'while Q != N' *)
T2A_UndoIter ==
    /\ fn = "transpose2axes"
    /\ pc = "undo"
    /\ Q # N(pH)
    /\ x' = UndoPass(x, Q, nD)
    /\ undoQs' = Append(undoQs, Q)
    /\ Q' = ShiftLeft(Q, 1)
    /\ UNCHANGED <<pH, nD, fn, pc, calls, iH, x_before, ih, t, grayQs>>

(* transpose2axes: loop exit and 'return x' *)
T2A_Return ==
    /\ fn = "transpose2axes"
    /\ pc = "undo"
    /\ Q = N(pH)
    /\ pc' = "returned"
    /\ calls' = calls + 1
    /\ UNCHANGED <<pH, nD, fn, iH, x, x_before, ih, Q, t, undoQs, grayQs>>

(* axes2transpose: M = 1 << (pH - 1); Q = M *)
A2T_Enter ==
    /\ fn = "axes2transpose"
    /\ pc = "call"
    /\ Q' = M(pH)
    /\ pc' = "undo"
    /\ undoQs' = <<>>
    /\ grayQs' = <<>>
    /\ UNCHANGED <<pH, nD, fn, calls, iH, x, x_before, ih, t>>

(* axes2transpose: one iteration of the first 'while Q > 1' *)
A2T_InverseUndoIter ==
    /\ fn = "axes2transpose"
    /\ pc = "undo"
    /\ Q > 1
    /\ x' = InverseUndoPass(x, Q, nD)
    /\ undoQs' = Append(undoQs, Q)
    /\ Q' = ShiftRight(Q, 1)
    /\ UNCHANGED <<pH, nD, fn, pc, calls, iH, x_before, ih, t, grayQs>>

(* axes2transpose: first loop exit, Gray encode pass, t = 0, Q = M *)
A2T_GrayEncode ==
    /\ fn = "axes2transpose"
    /\ pc = "undo"
    /\ ~(Q > 1)
    /\ x' = EncodeLoop(x, nD)
    /\ t' = 0
    /\ Q' = M(pH)
    /\ pc' = "gray"
    /\ UNCHANGED <<pH, nD, fn, calls, iH, x_before, ih, undoQs, grayQs>>

(* axes2transpose: one iteration of the second 'while Q > 1' *)
A2T_GrayIter ==
    /\ fn = "axes2transpose"
    /\ pc = "gray"
    /\ Q > 1
    /\ t' = (IF BitAnd(x[nD - 1], Q) # 0 THEN BitXor(t, Q - 1) ELSE t)
    /\ grayQs' = Append(grayQs, Q)
    /\ Q' = ShiftRight(Q, 1)
    /\ UNCHANGED <<pH, nD, fn, pc, calls, iH, x, x_before, ih, undoQs>>

(* axes2transpose: second loop exit, x[i] ^= t, extract and 'return ih' *)
A2T_Return ==
    /\ fn = "axes2transpose"
    /\ pc = "gray"
    /\ ~(Q > 1)
    /\ x' = XorAll(x, t, nD)
    /\ ih' = _extract_iH_from_x(x', pH, nD)
    /\ pc' = "returned"
    /\ calls' = calls + 1
    /\ UNCHANGED <<pH, nD, fn, iH, x_before, Q, t, undoQs, grayQs>>

(* the caller passes the list returned by transpose2axes to axes2transpose *)
CallAxes2Transpose ==
    /\ fn = "transpose2axes"
    /\ pc = "returned"
    /\ calls = 1
    /\ fn' = "axes2transpose"
    /\ pc' = "call"
    /\ x_before' = x
    /\ UNCHANGED <<pH, nD, calls, iH, x, ih, Q, t, undoQs, grayQs>>

(* the caller passes the distance returned by axes2transpose to            *)
(* transpose2axes                                                          *)
CallTranspose2Axes ==
    /\ fn = "axes2transpose"
    /\ pc = "returned"
    /\ calls = 1
    /\ fn' = "transpose2axes"
    /\ pc' = "call"
    /\ iH' = ih
    /\ UNCHANGED <<pH, nD, calls, x, x_before, ih, Q, t, undoQs, grayQs>>

Next ==
    \/ T2A_Pack
    \/ T2A_GrayDecode
    \/ T2A_UndoIter
    \/ T2A_Return
    \/ A2T_Enter
    \/ A2T_InverseUndoIter
    \/ A2T_GrayEncode
    \/ A2T_GrayIter
    \/ A2T_Return
    \/ CallAxes2Transpose
    \/ CallTranspose2Axes

Spec == Init /\ [][Next]_vars

(* A call, once started, keeps executing: the code is sequential and has   *)
(* no blocking operation.                                                  *)
FairSpec == Spec /\ WF_vars(Next)

----------------------------------------------------------------------------
(* Vocabulary of the properties.                                           *)

ValidIndex(d) == d \in 0..(2 ^ (pH * nD) - 1)

ValidAxes(v) == \A i \in 0..(nD - 1) : v[i] \in 0..(2 ^ pH - 1)

T2AReturned == fn = "transpose2axes" /\ pc = "returned"

A2TReturned == fn = "axes2transpose" /\ pc = "returned"

(* the whole-call operator and the step-wise execution agree *)
StepsAgree == T2AReturned => x = transpose2axes(iH, pH, nD)

----------------------------------------------------------------------------
(* Properties.                                                             *)

(* C1: the two conversions are exact inverses.  When axes2transpose has    *)
(* returned on the list transpose2axes produced for a valid distance iH,   *)
(* its result is iH; when transpose2axes has returned on the distance      *)
(* axes2transpose produced for valid coordinates, its result equals the    *)
(* values the coordinates held before that call.                           *)
C1_RoundTrip ==
    (calls = 2 /\ pc = "returned") =>
        /\ (fn = "axes2transpose" /\ ValidIndex(iH)) => ih = iH
        /\ (fn = "transpose2axes" /\ ValidAxes(x_before)) => x = x_before

C1_Witness ==
    /\ calls = 2 /\ pc = "returned" /\ fn = "transpose2axes"
    /\ nD = 2 /\ pH = 3
    /\ x_before[0] = 4 /\ x_before[1] = 6
    /\ iH = 36
    /\ x = x_before

(* C2: for fixed nD and pH, transpose2axes maps the valid distances to     *)
(* pairwise distinct vectors with every component in [0, 2^pH): the        *)
(* vector returned for a valid iH is in the lattice, no smaller distance   *)
(* maps to it, and the vectors of all valid distances fill the lattice.    *)
C2_Bijection ==
    (T2AReturned /\ ValidIndex(iH)) =>
        /\ DOMAIN x = 0..(nD - 1)
        /\ ValidAxes(x)
        /\ \A d \in 0..(iH - 1) : transpose2axes(d, pH, nD) # x
        /\ (iH = 0 =>
              Cardinality({transpose2axes(d, pH, nD) :
                              d \in 0..(2 ^ (pH * nD) - 1)}) = 2 ^ (pH * nD))

C2_Witness ==
    /\ T2AReturned /\ calls = 1
    /\ nD = 3 /\ pH = 2 /\ iH = 63
    /\ ValidAxes(x)

RECURSIVE Manhattan(_, _, _)
Manhattan(a, b, n) ==
    IF n = 0 THEN 0
    ELSE (IF a[n - 1] >= b[n - 1] THEN a[n - 1] - b[n - 1]
                                  ELSE b[n - 1] - a[n - 1])
         + Manhattan(a, b, n - 1)

(* C3: locality.  The vectors of consecutive valid distances iH and iH+1   *)
(* are at Manhattan distance exactly 1.                                    *)
C3_Locality ==
    (T2AReturned /\ ValidIndex(iH) /\ ValidIndex(iH + 1)) =>
        Manhattan(x, transpose2axes(iH + 1, pH, nD), nD) = 1

C3_Witness ==
    /\ T2AReturned /\ calls = 1
    /\ nD = 3 /\ pH = 3 /\ iH = 255
    /\ Manhattan(x, transpose2axes(256, pH, nD), nD) = 1

(* C4: the reference scenario nD = 2, pH = 3: distance 36 gives (4, 6)     *)
(* and (4, 6) gives distance 36.                                           *)
C4_Reference ==
    (nD = 2 /\ pH = 3 /\ pc = "returned") =>
        /\ (fn = "transpose2axes" /\ iH = 36) => (x[0] = 4 /\ x[1] = 6)
        /\ (fn = "axes2transpose" /\ x_before[0] = 4 /\ x_before[1] = 6)
              => ih = 36

C4_Witness ==
    /\ nD = 2 /\ pH = 3 /\ calls = 2
    /\ A2TReturned
    /\ iH = 36
    /\ x_before[0] = 4 /\ x_before[1] = 6
    /\ ih = 36

(* C5: when axes2transpose has returned, the caller's list holds the       *)
(* values it held before the call.                                         *)
C5_ArgumentUnchanged ==
    (A2TReturned /\ ValidAxes(x_before)) => x = x_before

(* C6: transpose2axes does not return a vector for a distance outside      *)
(* [0, 2^(nD*pH)).                                                         *)
C6_RejectsIndexOutOfRange ==
    T2AReturned => ValidIndex(iH)

(* C7: axes2transpose does not return a distance for coordinates with a    *)
(* component outside [0, 2^pH).                                            *)
C7_RejectsCoordinateOutOfRange ==
    A2TReturned => ValidAxes(x_before)

(* C8: distance 0 maps to the all-zero vector and the largest distance     *)
(* 2^(nD*pH) - 1 maps to the corner (2^pH - 1, 0, ..., 0).                 *)
C8_Boundary ==
    T2AReturned =>
        /\ iH = 0 => x = Zeros(nD)
        /\ iH = 2 ^ (pH * nD) - 1 =>
              x = [i \in 0..(nD - 1) |-> IF i = 0 THEN 2 ^ pH - 1 ELSE 0]

C8_Witness ==
    /\ T2AReturned /\ calls = 1
    /\ nD = 3 /\ pH = 3 /\ iH = 511
    /\ x[0] = 7 /\ x[1] = 0 /\ x[2] = 0

(* bit k of a non-negative integer *)
Bit(n, k) == (n \div (2 ^ k)) % 2

(* C9: _pack_iH_into_x is a bit permutation in the transpose layout: for   *)
(* a valid iH every X[i] is in [0, 2^pH) and bit (pH-1-k) of X[i] is bit   *)
(* (nD*pH - 1 - (k*nD + i)) of iH; _extract_iH_from_x is its inverse in    *)
(* both directions.                                                        *)
C9_PackLayout ==
    /\ (fn = "transpose2axes" /\ pc = "decode" /\ ValidIndex(iH)) =>
          /\ ValidAxes(x)
          /\ \A i \in 0..(nD - 1) : \A k \in 0..(pH - 1) :
                Bit(x[i], pH - 1 - k) = Bit(iH, nD * pH - 1 - (k * nD + i))
          /\ _extract_iH_from_x(x, pH, nD) = iH
    /\ (fn = "axes2transpose" /\ pc = "call" /\ ValidAxes(x)) =>
          _pack_iH_into_x(_extract_iH_from_x(x, pH, nD), pH, nD) = x

C9_Witness ==
    /\ fn = "transpose2axes" /\ pc = "decode" /\ calls = 0
    /\ nD = 3 /\ pH = 2 /\ iH = 38
    /\ x[0] = 3 /\ x[1] = 1 /\ x[2] = 0

DoublingQs(p) == [k \in 1..(p - 1) |-> 2 ^ k]

HalvingQs(p) == [k \in 1..(p - 1) |-> 2 ^ (p - k)]

(* C10: every call returns, and each loop over Q runs pH-1 times: in       *)
(* transpose2axes Q visits 2, 4, ..., 2^(pH-1) and the loop exits at       *)
(* Q = 2^pH; in axes2transpose both loops visit 2^(pH-1), ..., 2.          *)
C10_LoopsTerminate ==
    /\ (pc = "call") ~> (pc = "returned")
    /\ [](T2AReturned =>
            /\ undoQs = DoublingQs(pH)
            /\ Len(undoQs) = pH - 1
            /\ Q = 2 ^ pH)
    /\ [](A2TReturned =>
            /\ undoQs = HalvingQs(pH)
            /\ grayQs = HalvingQs(pH)
            /\ Len(undoQs) = pH - 1
            /\ Len(grayQs) = pH - 1)

C10_Witness ==
    /\ A2TReturned /\ calls = 2
    /\ pH = 3
    /\ undoQs = <<4, 2>>
    /\ grayQs = <<4, 2>>

====
